---- MODULE Spec2Model ----
(***************************************************************************)
(* Checkpointed pipeline engine of mediaichemy: the Content entity with    *)
(* its in-memory state and its ".state" ledger file, the checkpoint guard  *)
(* (_handle_checkpoint / _save_state), Content.load_state, Content.purge   *)
(* and the create runs of ShortVideoCreator and MusicVideoCreator.         *)
(*                                                                         *)
(* File names are sequences of tokens ("en_speech.mp3" is                  *)
(* <<"en", "_", "speech", ".mp3">>), so that the substring test of purge   *)
(* is computed as a contiguous-subsequence test.  The content of the       *)
(* ledger file is a sequence of tokens as well, so that the strip() of     *)
(* load_state is computed.  An artifact is a set of <<key, file name>>     *)
(* pairs: a single file has the key "", a per-language dict has the        *)
(* language codes as keys.                                                 *)
(***************************************************************************)
EXTENDS Integers, Sequences, FiniteSets, TLC

VARIABLES
    ai,            \* add_ai_videos: [pc, video, target_duration, videos_to_add, requests]
    tasks,         \* concurrent guard calls: task -> [pc, target, arg, lang, wrote]
    chemist,       \* the mediaAIChemist of the process: [requested, status, creator, message]
    ctype,         \* the class of the entity, a key of CONTENT
    state,         \* content.state, the in-memory current stage
    stateFile,     \* the ledger file <dir>/.state: [exists, content]
    files,         \* names of the other regular files of content.dir
    pc,            \* position of the guard call in _handle_checkpoint
    target,        \* the `state` argument of the guard call
    arg,           \* the argument of the decorated function that names files
    lang,          \* index in content.languages of the next per-language call
    result,        \* value returned by the last guard call
    run,           \* create in progress: [pos, start, first, fresh, end]
    op,            \* name of the last operation performed
    preState,      \* history: content.state when the guard call began
    preFile,       \* history: ledger file when the guard call began
    workRuns,      \* history: invocations of func in the current guard call
    workRaised,    \* history: func raised in the current guard call
    ledgerWrites,  \* history: completed ledger writes of the current guard call
    committed,     \* history: stages whose work completed and whose name was written
    recorded,      \* history: [stage, artifact] of the last call that executed and committed
    works,         \* number of guard calls that executed their work so far
    restarts,      \* number of reloads so far
    purges         \* number of purges so far

vars == <<ai, tasks, chemist, ctype, state, stateFile, files, pc, target, arg, lang, result, run, op,
          preState, preFile, workRuns, workRaised, ledgerWrites, committed,
          recorded, works, restarts, purges>>

----------------------------------------------------------------------------
(* Bounds of the exploration *)

\* guard calls that execute their work, reloads and purges of a behaviour
MaxWorks == 2
MaxRestarts == 1
MaxPurges == 1

\* add_ai_videos: the longest clip handed in, the longest target, the
\* longest extension returned (durations in whole units of time), and the
\* number of extensions of duration zero that the provider returns
MaxVideo == 3
MaxTarget == 5
MaxExtension == 2
MaxZeroClips == 2

----------------------------------------------------------------------------
(* Entity data *)

\* content.languages of the test idea (tests/unit/test_short_video.py:156)
Languages == <<"en", "pt">>

LangSet == {Languages[i] : i \in 1..Len(Languages)}

\* alignments of the subtitled clips (<lang>_edited_video_2.mp4, _5, _8)
Alignments == {"2", "5", "8"}

----------------------------------------------------------------------------
(* File names *)

IdeaJson == <<"idea", ".json">>
StateFileName == <<".", "state">>
ImageJpg == <<"image", ".jpg">>
VideoMp4 == <<"video", ".mp4">>
ImageVideoMp4 == <<"image", "_", "video", ".mp4">>
SpeechMp3(l) == <<l, "_", "speech", ".mp3">>
SpeechSilenceMp3(l) == <<l, "_", "speech", "_", "silence", ".mp3">>
LangVideoMp4(l) == <<l, "_", "video", ".mp4">>
EditedVideoMp4(l) == <<l, "_", "edited", "_", "video", ".mp4">>
EditedMp4 == <<"edited", "_", "video", ".mp4">>

\* subtitle_path.replace(".ass", ".mp4") for a clip named v: <v without .mp4>_<alignment>.mp4
SubtitledMp4(v, a) == SubSeq(v, 1, Len(v) - 1) \o <<"_", a, ".mp4">>

----------------------------------------------------------------------------
(* Artifacts *)

NoArtifact == {}
OneFile(n) == {<<"", n>>}
ContentCreated == {<<"", <<"Content created">>>>}

\* the coroutine object made by a call of an async def that is not awaited
CoroutineObject == {<<"", <<"coroutine">>>>}

\* ShortVideo.STATES: stage name -> <<ordinal, artifact descriptor>>
STATES ==
    [s \in {"initialized", "image_created", "video_created",
            "speech_created", "video_edited", "subtitles_added"} |->
        CASE s = "initialized"     -> <<0, NoArtifact>>
          [] s = "image_created"   -> <<1, OneFile(ImageJpg)>>
          [] s = "video_created"   -> <<2, OneFile(VideoMp4)>>
          [] s = "speech_created"  -> <<3, {<<l, SpeechMp3(l)>> : l \in LangSet}>>
          [] s = "video_edited"    -> <<4, {<<l, LangVideoMp4(l)>> : l \in LangSet}>>
          [] s = "subtitles_added" -> <<5, ContentCreated>>]

\* variant: the stages of a MusicVideo numbered without a gap
MusicVideoSTATES_Renumbered ==
    [s \in {"initialized", "image_created", "video_created",
            "video_edited", "subtitles_added"} |->
        CASE s = "initialized"     -> <<0, NoArtifact>>
          [] s = "image_created"   -> <<1, OneFile(ImageJpg)>>
          [] s = "video_created"   -> <<2, OneFile(VideoMp4)>>
          [] s = "video_edited"    -> <<3, OneFile(EditedMp4)>>
          [] s = "subtitles_added" -> <<4, ContentCreated>>]

\* MusicVideo.STATES
MusicVideoSTATES ==
    [s \in {"initialized", "image_created", "video_created",
            "video_edited", "subtitles_added"} |->
        CASE s = "initialized"     -> <<0, NoArtifact>>
          [] s = "image_created"   -> <<1, OneFile(ImageJpg)>>
          [] s = "video_created"   -> <<2, OneFile(VideoMp4)>>
          [] s = "video_edited"    -> <<4, OneFile(EditedMp4)>>
          [] s = "subtitles_added" -> <<5, ContentCreated>>]

\* the keys of CONTENT
ContentTypes == {"short_video", "music_video"}

\* self.STATES of an entity of class t
TableOf(t) == IF t = "music_video" THEN MusicVideoSTATES ELSE STATES

\* content.STATES
Table == TableOf(ctype)

StageNames == DOMAIN Table

\* the stages that a checkpoint decorator names (creator.py:20,28,41,53,71)
GuardedStages == {"image_created", "video_created", "speech_created",
                  "video_edited", "subtitles_added"}

Ord(s) == Table[s][1]
Descriptor(s) == Table[s][2]

----------------------------------------------------------------------------
(* The ledger file *)

NoFile == [exists |-> FALSE, content |-> <<>>]
FileWith(c) == [exists |-> TRUE, content |-> c]

IsSpace(t) == t \in {" ", "\n"}

RECURSIVE LStrip(_)
LStrip(c) == IF c # <<>> /\ IsSpace(Head(c)) THEN LStrip(Tail(c)) ELSE c

RECURSIVE RStrip(_)
RStrip(c) ==
    IF c # <<>> /\ IsSpace(c[Len(c)]) THEN RStrip(SubSeq(c, 1, Len(c) - 1)) ELSE c

\* str.strip()
Strip(c) == RStrip(LStrip(c))

\* the string spelled by a token sequence; two or more tokens spell a
\* string that is no stage name
Spell(c) == IF c = <<>> THEN ""
            ELSE IF Len(c) = 1 THEN c[1]
            ELSE "<other>"

\* variant: no default when the ledger file is absent
LoadState_NoDefault(f) == Spell(Strip(f.content))

\* Content.load_state
LoadState(f) == IF f.exists THEN Spell(Strip(f.content)) ELSE "initialized"

----------------------------------------------------------------------------
(* Content.purge *)

\* `sub in name` of Python, on token sequences
Contains(sub, name) ==
    \E i \in 0..(Len(name) - Len(sub)) : SubSeq(name, i + 1, i + Len(sub)) = sub

\* variant: only the files whose name contains ready_string are kept
Kept_OnlyReady(ready_string, file_name) == Contains(ready_string, file_name)

\* the files that purge keeps (content.py:109-113)
Kept(ready_string, file_name) ==
    \/ Contains(ready_string, file_name)
    \/ file_name \in {IdeaJson, ImageJpg, VideoMp4}

\* the default ready_string (content.py:101) and two other retain strings
DefaultReady == <<"edited", "_", "video">>
ReadyStrings == {DefaultReady, <<"state">>, <<>>}

----------------------------------------------------------------------------
(* The decorated stage functions of ContentCreator *)

\* the values of the argument that decides the names of the files written:
\* creation_method of run_video_creation, the clips handed to run_subtitling
\* (the dict returned by ContentCreator.run_video_editing)
Args(s) ==
    CASE s = "video_created"   -> {"static_image", "ai"}
      [] s = "subtitles_added" -> {"edited"}
      [] OTHER                 -> {""}

\* the stage function finds the attributes of the entity that it reads:
\* content.languages and content.texts are set by ShortVideo only
\* (short_video.py:74-77, music_video.py:68-73)
HasAttributes(s) ==
    ctype = "short_video" \/ s \in {"image_created", "video_created"}

\* the stage functions that loop over content.languages (creator.py:44,56,74)
LanguageStages == {"speech_created", "video_edited", "subtitles_added"}

\* variant: the stage function returns after the call for the first language
NCalls_FirstOnly(s) == 1

\* number of external calls of the stage function: one, or one per language
NCalls(s) ==
    IF s \in LanguageStages THEN Len(Languages) ELSE 1

InputVideo(a, l) == IF a = "edited" THEN EditedVideoMp4(l) ELSE LangVideoMp4(l)

\* files written by the i-th external call of the stage function
Produced(s, a, i) ==
    LET l == Languages[i] IN
    CASE s = "image_created"   -> {ImageJpg}
      [] s = "video_created"   -> IF a = "static_image" THEN {ImageVideoMp4}
                                                         ELSE {VideoMp4}
      [] s = "speech_created"  -> {SpeechMp3(l)}
      [] s = "video_edited"    -> {SpeechSilenceMp3(l), LangVideoMp4(l),
                                   EditedVideoMp4(l)}
      [] s = "subtitles_added" -> {SubtitledMp4(InputVideo(a, l), al) :
                                       al \in Alignments}

\* value returned by the stage function
WorkResult(s, a) ==
    CASE s = "image_created"   -> OneFile(ImageJpg)
      [] s = "video_created"   -> IF a = "static_image" THEN OneFile(ImageVideoMp4)
                                                         ELSE OneFile(VideoMp4)
      [] s = "speech_created"  -> {<<l, SpeechMp3(l)>> : l \in LangSet}
      [] s = "video_edited"    -> {<<l, EditedVideoMp4(l)>> : l \in LangSet}
      [] s = "subtitles_added" ->
            {<<l, SubtitledMp4(InputVideo(a, l), al)>> :
                 l \in LangSet, al \in Alignments}

----------------------------------------------------------------------------
(* State *)

Terminal == {"idle", "skipped", "returned", "raised"}

\* the calls of create that are guarded and awaited
\* (short_video.py:99-102, music_video.py:101-103)
Pipeline ==
    IF ctype = "music_video"
    THEN <<"image_created", "video_created">>
    ELSE <<"image_created", "video_created", "speech_created">>

NoRun == [pos |-> 0, start |-> "", first |-> "none", fresh |-> FALSE,
          end |-> "none"]

\* variant: the constructor writes the ledger record of 'initialized'
LedgerAtInit_Persisted == FileWith(<<"initialized">>)

\* the ledger file after Content.__init__ with a dict: Directory creates
\* the directory, save() writes idea.json, nothing writes <dir>/.state
\* (content.py:39-44, 58-71)
LedgerAtInit == NoFile

\* Content.__init__ with a dict: state 'initialized', idea.json saved,
\* no ledger file written (content.py:39-44)
EntityInit ==
    /\ state = "initialized"
    /\ stateFile = LedgerAtInit
    /\ files = {IdeaJson}
    /\ pc = "idle"
    /\ target = ""
    /\ arg = ""
    /\ lang = 1
    /\ result = NoArtifact
    /\ run = NoRun
    /\ op = "init"
    /\ preState = "initialized"
    /\ preFile = LedgerAtInit
    /\ workRuns = 0
    /\ workRaised = FALSE
    /\ ledgerWrites = 0
    /\ committed = {}
    /\ recorded = [stage |-> "", artifact |-> NoArtifact]
    /\ works = 0
    /\ restarts = 0
    /\ purges = 0

\* add_ai_videos has not been called
NoAi == [pc |-> "none", video |-> 0, target_duration |-> 0,
         videos_to_add |-> <<>>, requests |-> 0]

\* the asyncio tasks of the concurrent guard calls
TaskIds == {1, 2}

\* no task has called its guard yet
NewTasks == [i \in TaskIds |->
                [pc |-> "new", target |-> "", arg |-> "", lang |-> 1,
                 wrote |-> FALSE]]

\* no mediaAIChemist has been constructed
NoChemist == [requested |-> "", status |-> "none", creator |-> "none",
              message |-> <<>>]

\* a ShortVideo made from an idea dict
Init ==
    ctype = "short_video" /\ chemist = NoChemist /\ tasks = NewTasks /\ ai = NoAi
    /\ EntityInit

\* a MusicVideo made from an idea dict
InitMV ==
    ctype = "music_video" /\ chemist = NoChemist /\ tasks = NewTasks /\ ai = NoAi
    /\ EntityInit

\* an entity of either class, to be handled through a mediaAIChemist
InitChemist ==
    ctype \in ContentTypes /\ chemist = NoChemist /\ tasks = NewTasks /\ ai = NoAi
    /\ EntityInit

----------------------------------------------------------------------------
(* _handle_checkpoint *)

\* variant: the skip only when the entity is exactly at the stage
HasCheckpointBeenReached_Equal(cur, s) == Ord(cur) = Ord(s)

\* variant: the skip only when the entity is beyond the stage
HasCheckpointBeenReached_Strict(cur, s) == Ord(cur) > Ord(s)

\* has_checkpoint_been_reached (checkpoint.py:49)
HasCheckpointBeenReached(cur, s) == Ord(cur) >= Ord(s)

\* variant: a name that the table lacks counts as a stage not yet reached
GuardOutcome_NoLookup(cur, s) ==
    IF cur \in StageNames /\ s \in StageNames /\ HasCheckpointBeenReached(cur, s)
    THEN "skipped"
    ELSE "work"

\* checkpoint.py:49-58: the lookup of content.state and of state in
\* content.STATES (KeyError for a name that is no key), the skip, the call
GuardOutcome(cur, s) ==
    IF cur \notin StageNames \/ s \notin StageNames THEN "raised"
    ELSE IF HasCheckpointBeenReached(cur, s) THEN "skipped"
    ELSE "work"

\* variant: a call of the function for the stage of the call before it
\* goes on at the language where that call stopped
FirstLanguage_Resume(prev, s, stopped) == IF prev = s THEN stopped ELSE 1

\* `for language in content.languages` (creator.py:44,56,74): every call
\* of the function starts at the first language
FirstLanguage(prev, s, stopped) == 1

\* checkpoint.py:48-58: the lookup of both stages, the skip, the call of func
Enter(s, a) ==
    /\ target' = s
    /\ arg' = a
    /\ lang' = FirstLanguage(target, s, lang)
    /\ preState' = state
    /\ preFile' = stateFile
    /\ ledgerWrites' = 0
    /\ workRaised' = FALSE
    /\ IF GuardOutcome(state, s) = "raised"
       THEN /\ pc' = "raised"
            /\ workRuns' = 0
            /\ result' = NoArtifact
            /\ works' = works
       ELSE IF GuardOutcome(state, s) = "skipped"
       THEN /\ pc' = "skipped"
            /\ workRuns' = 0
            /\ result' = Descriptor(s)
            /\ works' = works
       ELSE /\ works < MaxWorks
            /\ works' = works + 1
            /\ pc' = "work"
            /\ workRuns' = 1
            /\ result' = NoArtifact
    /\ UNCHANGED <<ai, tasks, chemist, ctype, state, stateFile, files, committed, recorded, restarts,
                   purges>>

\* a guard called on its own, as the tests call the run_* methods
Guard(s, a) ==
    /\ pc \in Terminal
    /\ run.pos = 0
    /\ Enter(s, a)
    /\ run' = NoRun
    /\ op' = "guard"

\* a synchronous function decorated with checkpoint(s), called on its own:
\* sync_handler returns _handle_checkpoint(...) without awaiting it
\* (checkpoint.py:25-27), and _handle_checkpoint is an async def
\* (checkpoint.py:35), so the call makes a coroutine object and returns it;
\* no statement of _handle_checkpoint has run
GuardSync(s, a) ==
    /\ pc \in Terminal
    /\ run.pos = 0
    /\ target' = s
    /\ arg' = a
    /\ lang' = 1
    /\ preState' = state
    /\ preFile' = stateFile
    /\ ledgerWrites' = 0
    /\ workRaised' = FALSE
    /\ workRuns' = 0
    /\ result' = CoroutineObject
    /\ pc' = "returned"
    /\ run' = NoRun
    /\ op' = "syncguard"
    /\ UNCHANGED <<ai, tasks, chemist, ctype, state, stateFile, files, committed, recorded, works,
                   restarts, purges>>

\* variant: the exception of func is swallowed and the commit proceeds
PcAfterRaise_Swallowed == "set"

\* variant: func is called again after it raised
PcAfterRaise_Retry == "work"

\* where control goes when func raises: out of _handle_checkpoint
\* (checkpoint.py:56 has no try around it)
PcAfterRaise == "raised"

\* one external call of func succeeds (checkpoint.py:56)
WorkCallOk ==
    /\ pc = "work"
    /\ HasAttributes(target)
    /\ files' = files \cup Produced(target, arg, lang)
    /\ IF lang = NCalls(target)
       THEN pc' = "set" /\ lang' = lang
       ELSE pc' = "work" /\ lang' = lang + 1
    /\ op' = "work"
    /\ UNCHANGED <<ai, tasks, chemist, ctype, state, stateFile, target, arg, result, run, preState,
                   preFile, workRuns, workRaised, ledgerWrites, committed,
                   recorded, works, restarts, purges>>

\* one external call of func raises (checkpoint.py:56)
WorkCallRaise ==
    /\ pc = "work"
    /\ pc' = PcAfterRaise
    /\ workRaised' = TRUE
    /\ op' = "raise"
    /\ UNCHANGED <<ai, tasks, chemist, ctype, state, stateFile, files, target, arg, lang, result, run,
                   preState, preFile, workRuns, ledgerWrites, committed,
                   recorded, works, restarts, purges>>

\* variant: the cancellation is caught and the commit proceeds
PcAfterCancel_Commit == "set"

\* where control goes when the task is cancelled at an await of func:
\* CancelledError is raised at the await and leaves _handle_checkpoint
\* like any exception of func (checkpoint.py:56 has no try around it)
PcAfterCancel == "raised"

\* the caller cancels the task (timeout or cancel) while func is suspended
\* at the await of an external call (checkpoint.py:56)
Cancel ==
    /\ pc = "work"
    /\ pc' = PcAfterCancel
    /\ op' = "cancel"
    /\ UNCHANGED <<ai, tasks, chemist, ctype, state, stateFile, files, target, arg, lang, result, run,
                   preState, preFile, workRuns, workRaised, ledgerWrites,
                   committed, recorded, works, restarts, purges>>

\* content.state = state (checkpoint.py:61)
SetState ==
    /\ pc = "set"
    /\ state' = target
    /\ pc' = "save"
    /\ op' = "setstate"
    /\ UNCHANGED <<ai, tasks, chemist, ctype, stateFile, files, target, arg, lang, result, run, preState,
                   preFile, workRuns, workRaised, ledgerWrites, committed,
                   recorded, works, restarts, purges>>

\* _save_state: open(state_file, "w") creates or truncates (checkpoint.py:76)
SaveOpen ==
    /\ pc = "save"
    /\ stateFile' = FileWith(<<>>)
    /\ pc' = "write"
    /\ op' = "open"
    /\ UNCHANGED <<ai, tasks, chemist, ctype, state, files, target, arg, lang, result, run, preState,
                   preFile, workRuns, workRaised, ledgerWrites, committed,
                   recorded, works, restarts, purges>>

\* _save_state: open raises, the except logs it (checkpoint.py:79-80),
\* _handle_checkpoint returns result (checkpoint.py:64)
SaveOpenFail ==
    /\ pc = "save"
    /\ pc' = "returned"
    /\ result' = WorkResult(target, arg)
    /\ op' = "openfail"
    /\ UNCHANGED <<ai, tasks, chemist, ctype, state, stateFile, files, target, arg, lang, run, preState,
                   preFile, workRuns, workRaised, ledgerWrites, committed,
                   recorded, works, restarts, purges>>

\* _save_state: file.write(content.state) and the close of the with block
\* (checkpoint.py:77), then return result (checkpoint.py:64)
SaveWrite ==
    /\ pc = "write"
    /\ stateFile' = FileWith(<<state>>)
    /\ ledgerWrites' = ledgerWrites + 1
    /\ committed' = committed \cup {target}
    /\ recorded' = [stage |-> target, artifact |-> WorkResult(target, arg)]
    /\ pc' = "returned"
    /\ result' = WorkResult(target, arg)
    /\ op' = "write"
    /\ UNCHANGED <<ai, tasks, chemist, ctype, state, files, target, arg, lang, run, preState, preFile,
                   workRuns, workRaised, works, restarts, purges>>

\* _save_state: the write or the flush raises after the truncation, the
\* except logs it (checkpoint.py:79-80), then return result (checkpoint.py:64)
SaveWriteFail ==
    /\ pc = "write"
    /\ pc' = "returned"
    /\ result' = WorkResult(target, arg)
    /\ op' = "writefail"
    /\ UNCHANGED <<ai, tasks, chemist, ctype, state, stateFile, files, target, arg, lang, run, preState,
                   preFile, workRuns, workRaised, ledgerWrites, committed,
                   recorded, works, restarts, purges>>

----------------------------------------------------------------------------
(* Content.purge and the reload of the entity *)

\* Content.purge(ready_string) (content.py:101-116); the ledger file is a
\* regular file of content.dir named ".state"
Purge(ready_string) ==
    /\ pc \in Terminal
    /\ run.pos = 0
    /\ purges < MaxPurges
    /\ purges' = purges + 1
    /\ files' = {f \in files : Kept(ready_string, f)}
    /\ stateFile' = IF stateFile.exists /\ ~Kept(ready_string, StateFileName)
                    THEN NoFile
                    ELSE stateFile
    /\ pc' = "idle"
    /\ run' = NoRun
    /\ op' = "purge"
    /\ UNCHANGED <<ai, tasks, chemist, ctype, state, target, arg, lang, result, preState, preFile,
                   workRuns, workRaised, ledgerWrites, committed, recorded,
                   works, restarts>>

\* the process ends (at any point, also inside a guard call) and a new one
\* constructs the entity from <dir>/idea.json: Content.__init__ with a str
\* calls load_state (content.py:34-38, 85-99)
Restart ==
    /\ restarts < MaxRestarts
    /\ restarts' = restarts + 1
    /\ state' = LoadState(stateFile)
    /\ pc' = "idle"
    /\ target' = ""
    /\ arg' = ""
    /\ lang' = 1
    /\ result' = NoArtifact
    /\ run' = NoRun
    /\ op' = "restart"
    /\ preState' = LoadState(stateFile)
    /\ preFile' = stateFile
    /\ workRuns' = 0
    /\ workRaised' = FALSE
    /\ ledgerWrites' = 0
    /\ UNCHANGED <<ai, tasks, chemist, ctype, stateFile, files, committed, recorded, works, purges>>

----------------------------------------------------------------------------
(* ShortVideoCreator.create (short_video.py:98-105) and
   MusicVideoCreator.create (music_video.py:99-108) *)

\* first stage whose func the run invoked
FirstWork(first, s, newpc) ==
    IF first = "none" /\ newpc = "work" THEN s ELSE first

\* line 99: image = await self.run_image_creation(content)
CreateBegin ==
    /\ pc \in Terminal
    /\ run.pos = 0
    /\ Enter(Pipeline[1], "")
    /\ run' = [pos |-> 1, start |-> state,
               first |-> FirstWork("none", Pipeline[1], pc'),
               fresh |-> (op = "restart"), end |-> "running"]
    /\ op' = "create"

\* lines 100-102: the guard returned (or skipped), the next guard is awaited
CreateNext ==
    /\ run.pos \in 1..(Len(Pipeline) - 1)
    /\ pc \in {"skipped", "returned"}
    /\ \E a \in Args(Pipeline[run.pos + 1]) : Enter(Pipeline[run.pos + 1], a)
    /\ run' = [run EXCEPT !.pos = run.pos + 1,
                          !.first = FirstWork(run.first, Pipeline[run.pos + 1], pc')]
    /\ op' = "next"

\* lines 103-104: self.run_video_editing(...) is an async function that is
\* not decorated in ShortVideoCreator (short_video.py:140-142) and is
\* called without await: the call makes a coroutine object, none of the
\* function runs, and unpacking the coroutine into `speech, video` raises
\* TypeError out of create.  MusicVideoCreator.create looks up
\* self.run_video_editing2 (music_video.py:104), which no class defines:
\* AttributeError out of create
CreateUnpack ==
    /\ run.pos = Len(Pipeline)
    /\ pc \in {"skipped", "returned"}
    /\ run' = [run EXCEPT !.pos = 0,
                          !.end = IF ctype = "music_video" THEN "attributeerror"
                                                           ELSE "typeerror"]
    /\ pc' = "idle"
    /\ op' = "typeerror"
    /\ UNCHANGED <<ai, tasks, chemist, ctype, state, stateFile, files, target, arg, lang, result,
                   preState, preFile, workRuns, workRaised, ledgerWrites,
                   committed, recorded, works, restarts, purges>>

\* the awaited guard raised: the exception leaves create
CreateAbort ==
    /\ run.pos \in 1..Len(Pipeline)
    /\ pc = "raised"
    /\ run' = [run EXCEPT !.pos = 0, !.end = "error"]
    /\ op' = "abort"
    /\ UNCHANGED <<ai, tasks, chemist, ctype, state, stateFile, files, pc, target, arg, lang, result,
                   preState, preFile, workRuns, workRaised, ledgerWrites,
                   committed, recorded, works, restarts, purges>>

----------------------------------------------------------------------------
Next ==
    \/ \E s \in GuardedStages : \E a \in Args(s) : Guard(s, a)
    \/ WorkCallOk
    \/ WorkCallRaise
    \/ Cancel
    \/ SetState
    \/ SaveOpen
    \/ SaveOpenFail
    \/ SaveWrite
    \/ SaveWriteFail
    \/ \E r \in ReadyStrings : Purge(r)
    \/ Restart
    \/ CreateBegin
    \/ CreateNext
    \/ CreateUnpack
    \/ CreateAbort

Spec == Init /\ [][Next]_vars

\* the same operations on a MusicVideo
SpecMV == InitMV /\ [][Next]_vars

\* the operations of Next and the guards of synchronous functions
NextSync ==
    \/ Next
    \/ \E s \in GuardedStages : \E a \in Args(s) : GuardSync(s, a)

SpecSync == Init /\ [][NextSync]_vars

----------------------------------------------------------------------------
(* mediaAIChemist (aichemist.py) *)

\* the content types that a caller asks for: the keys of CONTENT, the name
\* of the test (tests/unit/test_aichemist.py:17) and the empty string
TypeInputs == ContentTypes \cup {"invalid_content_type", ""}

\* variant: the constructor does not check the content type
Supported_Any(t) == TRUE

\* content_type in CONTENT (aichemist.py:19)
Supported(t) == t \in ContentTypes

\* CONTENT[content_type]['creator'] (aichemist.py:4-9, 22); a name that is
\* no key raises KeyError
CreatorOf(t) ==
    CASE t = "short_video" -> "ShortVideoCreator"
      [] t = "music_video" -> "MusicVideoCreator"
      [] OTHER             -> "KeyError"

\* mediaAIChemist.__init__(content_type) (aichemist.py:13-22): ValueError
\* for a type that is no key of CONTENT, else the creator is instantiated;
\* the constructor of the creator may raise (it reads the configuration
\* and, for a music video, fetches the captions of the video)
Construct(t) ==
    /\ chemist.status # "constructed"
    /\ \/ /\ ~Supported(t)
          /\ chemist' = [requested |-> t, status |-> "valueerror",
                         creator |-> "none",
                         message |-> <<"Unsupported content type: ", t>>]
       \/ /\ Supported(t)
          /\ \E ok \in BOOLEAN :
                chemist' = [requested |-> t,
                            status |-> IF ok /\ CreatorOf(t) # "KeyError"
                                       THEN "constructed" ELSE "creatorerror",
                            creator |-> IF ok THEN CreatorOf(t) ELSE "none",
                            message |-> <<>>]
    /\ op' = "construct"
    /\ UNCHANGED <<ai, tasks, ctype, state, stateFile, files, pc, target, arg, lang, result,
                   run, preState, preFile, workRuns, workRaised, ledgerWrites,
                   committed, recorded, works, restarts, purges>>

\* the operations on the entity that initialize_content of the chemist
\* made (aichemist.py:40), driven through the chemist's creator
ChemistStep ==
    /\ chemist.status = "constructed"
    /\ chemist.requested = ctype
    /\ Next

NextChemist ==
    \/ \E t \in TypeInputs : Construct(t)
    \/ ChemistStep

SpecChemist == InitChemist /\ [][NextChemist]_vars

----------------------------------------------------------------------------
(* Two guard calls as concurrent asyncio tasks on one entity.  The tasks of
   one event loop interleave at the awaits only: the lookup and the
   comparison (checkpoint.py:49-52) run without interruption, each external
   call of func is awaited (checkpoint.py:56), and the assignment of
   content.state with the call of _save_state (checkpoint.py:61-64) runs
   without interruption. *)

\* the outcomes of _save_state: written, open raised, write raised
SaveOutcomes == {"written", "openfail", "writefail"}

\* the ledger file after _save_state (checkpoint.py:74-80)
LedgerAfterSave(outcome, s, old) ==
    CASE outcome = "written"   -> FileWith(<<s>>)
      [] outcome = "openfail"  -> old
      [] outcome = "writefail" -> FileWith(<<>>)

\* task i calls the guard of stage s, a stage that no other task is at
\* work on: checkpoint.py:49-58 up to the first await
TaskEnter(i, s, a) ==
    /\ pc = "idle"
    /\ tasks[i].pc = "new"
    /\ \A j \in TaskIds \ {i} : tasks[j].target # s
    /\ tasks' = [tasks EXCEPT ![i] =
                    [pc |-> GuardOutcome(state, s), target |-> s, arg |-> a,
                     lang |-> 1, wrote |-> FALSE]]
    /\ op' = "taskenter"
    /\ UNCHANGED <<ai, chemist, ctype, state, stateFile, files, pc, target, arg, lang,
                   result, run, preState, preFile, workRuns, workRaised,
                   ledgerWrites, committed, recorded, works, restarts, purges>>

\* an external call of task i's func succeeds (checkpoint.py:56)
TaskWorkOk(i) ==
    /\ tasks[i].pc = "work"
    /\ files' = files \cup Produced(tasks[i].target, tasks[i].arg, tasks[i].lang)
    /\ tasks' = [tasks EXCEPT ![i] =
                    IF tasks[i].lang = NCalls(tasks[i].target)
                    THEN [@ EXCEPT !.pc = "commit"]
                    ELSE [@ EXCEPT !.lang = @ + 1]]
    /\ op' = "taskwork"
    /\ UNCHANGED <<ai, chemist, ctype, state, stateFile, pc, target, arg, lang, result,
                   run, preState, preFile, workRuns, workRaised, ledgerWrites,
                   committed, recorded, works, restarts, purges>>

\* an external call of task i's func raises (checkpoint.py:56)
TaskWorkRaise(i) ==
    /\ tasks[i].pc = "work"
    /\ tasks' = [tasks EXCEPT ![i].pc = "raised"]
    /\ op' = "taskraise"
    /\ UNCHANGED <<ai, chemist, ctype, state, stateFile, files, pc, target, arg, lang,
                   result, run, preState, preFile, workRuns, workRaised,
                   ledgerWrites, committed, recorded, works, restarts, purges>>

\* func of task i has returned: content.state = state, _save_state,
\* return result (checkpoint.py:61-64)
TaskCommit(i, outcome) ==
    /\ tasks[i].pc = "commit"
    /\ state' = tasks[i].target
    /\ stateFile' = LedgerAfterSave(outcome, tasks[i].target, stateFile)
    /\ tasks' = [tasks EXCEPT ![i] =
                    [@ EXCEPT !.pc = "returned", !.wrote = (outcome = "written")]]
    /\ op' = "taskcommit"
    /\ UNCHANGED <<ai, chemist, ctype, files, pc, target, arg, lang, result, run,
                   preState, preFile, workRuns, workRaised, ledgerWrites,
                   committed, recorded, works, restarts, purges>>

NextConc ==
    \/ \E i \in TaskIds : \E s \in GuardedStages : \E a \in Args(s) :
            TaskEnter(i, s, a)
    \/ \E i \in TaskIds : TaskWorkOk(i)
    \/ \E i \in TaskIds : TaskWorkRaise(i)
    \/ \E i \in TaskIds : \E outcome \in SaveOutcomes : TaskCommit(i, outcome)

SpecConc == Init /\ [][NextConc]_vars

----------------------------------------------------------------------------
(* add_ai_videos (tools/edit_video.py:142-162).  A clip is its duration. *)

RECURSIVE SumSeq(_)
SumSeq(s) == IF s = <<>> THEN 0 ELSE Head(s) + SumSeq(Tail(s))

\* sum([v.get_duration() for v in [video] + videos_to_add])
TotalDuration(video, videos_to_add) == video + SumSeq(videos_to_add)

\* variant: the loop also runs when the clips just reach the target
LoopContinues_Inclusive(total, target_duration) == total <= target_duration

\* the condition of the while loop (edit_video.py:148)
LoopContinues(total, target_duration) == total < target_duration

ZeroClips(s) == Cardinality({i \in 1..Len(s) : s[i] = 0})

\* add_ai_videos(video, target_duration, prompt) is called
InitAi ==
    /\ ctype = "short_video" /\ chemist = NoChemist /\ tasks = NewTasks
    /\ EntityInit
    /\ \E v \in 1..MaxVideo : \E td \in 0..MaxTarget :
          ai = [pc |-> "loop", video |-> v, target_duration |-> td,
                videos_to_add |-> <<>>, requests |-> 0]

\* one iteration of the loop: the last frame is extracted, the request is
\* awaited and the clip it returns, of duration d, is appended
\* (edit_video.py:148-157)
AiIteration(d) ==
    /\ ai.pc = "loop"
    /\ LoopContinues(TotalDuration(ai.video, ai.videos_to_add), ai.target_duration)
    /\ d = 0 => ZeroClips(ai.videos_to_add) < MaxZeroClips
    /\ ai' = [ai EXCEPT !.videos_to_add = Append(@, d), !.requests = @ + 1]
    /\ op' = "airequest"
    /\ UNCHANGED <<tasks, chemist, ctype, state, stateFile, files, pc, target, arg,
                   lang, result, run, preState, preFile, workRuns, workRaised,
                   ledgerWrites, committed, recorded, works, restarts, purges>>

\* extract_last_frame raises before the request is made
\* (edit_video.py:151, 112-114)
AiFrameRaise ==
    /\ ai.pc = "loop"
    /\ LoopContinues(TotalDuration(ai.video, ai.videos_to_add), ai.target_duration)
    /\ ai' = [ai EXCEPT !.pc = "raised"]
    /\ op' = "aiframeraise"
    /\ UNCHANGED <<tasks, chemist, ctype, state, stateFile, files, pc, target, arg,
                   lang, result, run, preState, preFile, workRuns, workRaised,
                   ledgerWrites, committed, recorded, works, restarts, purges>>

\* the request is made and raises (edit_video.py:152-155)
AiRequestRaise ==
    /\ ai.pc = "loop"
    /\ LoopContinues(TotalDuration(ai.video, ai.videos_to_add), ai.target_duration)
    /\ ai' = [ai EXCEPT !.pc = "raised", !.requests = @ + 1]
    /\ op' = "airaise"
    /\ UNCHANGED <<tasks, chemist, ctype, state, stateFile, files, pc, target, arg,
                   lang, result, run, preState, preFile, workRuns, workRaised,
                   ledgerWrites, committed, recorded, works, restarts, purges>>

\* the condition of the loop is false: the clips are concatenated and
\* returned (edit_video.py:158-162)
AiReturn ==
    /\ ai.pc = "loop"
    /\ ~LoopContinues(TotalDuration(ai.video, ai.videos_to_add), ai.target_duration)
    /\ ai' = [ai EXCEPT !.pc = "done"]
    /\ op' = "aireturn"
    /\ UNCHANGED <<tasks, chemist, ctype, state, stateFile, files, pc, target, arg,
                   lang, result, run, preState, preFile, workRuns, workRaised,
                   ledgerWrites, committed, recorded, works, restarts, purges>>

NextAi ==
    \/ \E d \in 0..MaxExtension : AiIteration(d)
    \/ AiFrameRaise
    \/ AiRequestRaise
    \/ AiReturn

\* the coroutine of add_ai_videos is run to its end by the event loop
SpecAi == InitAi /\ [][NextAi]_vars /\ WF_vars(NextAi)

----------------------------------------------------------------------------
TypeOK ==
    /\ ai.pc \in {"none", "loop", "raised", "done"}
    /\ \A i \in TaskIds :
          tasks[i].pc \in {"new", "raised", "skipped", "work", "commit", "returned"}
    /\ chemist.status \in {"none", "valueerror", "creatorerror", "constructed"}
    /\ ctype \in ContentTypes
    /\ state \in StageNames \cup {""}
    /\ pc \in Terminal \cup {"work", "set", "save", "write"}
    /\ target \in GuardedStages \cup {""}
    /\ lang \in 1..Len(Languages)
    /\ run.pos \in 0..Len(Pipeline)
    /\ workRuns \in 0..1
    /\ ledgerWrites \in 0..1
    /\ committed \subseteq GuardedStages

----------------------------------------------------------------------------
(* Properties of the checkpoint guard *)

\* a guard call is in progress or has just ended
InCall == pc # "idle"

\* C1: once the work of a stage has completed and its checkpoint has been
\* written to the ledger, the work of that stage is never started again,
\* over guard calls, pipeline runs, failures, reloads and purges.
C1_AtMostOnce ==
    [][\A s \in committed : ~(pc # "work" /\ pc' = "work" /\ target' = s)]_vars

\* C2: over guard calls (every step that is not a reload of the entity),
\* the ordinal of content.state never decreases, and a state that is no
\* stage of the table is left as it is.
C2_Monotonic ==
    [][op' # "restart" =>
          /\ state \in StageNames =>
                state' \in StageNames /\ Ord(state') >= Ord(state)
          /\ state \notin StageNames => state' = state]_vars

C2_Witness == op = "setstate" /\ Ord(state) > Ord(preState)

\* C3: a guard for stage N called on an entity whose stage has an ordinal
\* >= N's is a skip: func is not invoked, content.state and the ledger file
\* are what they were and no ledger write is made.
C3_SkipNoEffect ==
    (InCall /\ preState \in StageNames /\ Ord(preState) >= Ord(target)) =>
        /\ pc = "skipped"
        /\ workRuns = 0
        /\ state = preState
        /\ ledgerWrites = 0
        /\ stateFile = preFile

C3_Witness == pc = "skipped" /\ Ord(preState) > Ord(target) /\ stateFile.exists

\* C4: when the guard for stage N, called on an entity at ordinal N-1 and
\* whose work succeeds, returns, the work was executed once, content.state
\* is N and the ledger file names N.
C4_FirstRunCommit ==
    (pc = "returned" /\ Ord(target) = Ord(preState) + 1) =>
        /\ workRuns = 1
        /\ state = target
        /\ stateFile = FileWith(<<target>>)

\* C5: if the work of a guard call raises, the exception leaves the guard,
\* and content.state and the ledger file are exactly what they were when
\* the guard was called; no ledger write is made.
C5_FailureUntouched ==
    (InCall /\ workRaised) =>
        /\ pc = "raised"
        /\ state = preState
        /\ stateFile = preFile
        /\ ledgerWrites = 0

C5_Witness == pc = "raised" /\ workRaised /\ lang = 2 /\ stateFile.exists

\* C6: after stage N was committed, a reload reads N from the ledger, and
\* a run of create on the reloaded entity invokes no work of a stage with
\* ordinal <= N and, when no external call fails, invokes the work of the
\* stage of ordinal N+1 first.
C6_ReloadReadsLedger ==
    \A s \in StageNames :
        (op = "restart" /\ stateFile = FileWith(<<s>>)) => state = s

C6_NoWorkUpToN ==
    (run.fresh /\ run.pos > 0 /\ pc = "work" /\ run.start \in StageNames) =>
        Ord(target) > Ord(run.start)

C6_ResumesAtNext ==
    (run.fresh /\ run.end = "typeerror" /\ run.start \in committed
        /\ Ord(run.start) < 5) =>
        (run.first \in StageNames /\ Ord(run.first) = Ord(run.start) + 1)

C6_CrashResume == C6_ReloadReadsLedger /\ C6_NoWorkUpToN /\ C6_ResumesAtNext

\* C7: whenever a guard call that executed its work returns normally, the
\* ledger file exists and names content.state, also when the write of the
\* ledger file failed.
C7_DurableBeforeReturn ==
    pc = "returned" => (stateFile.exists /\ LoadState(stateFile) = state)

\* C8: at every instant the ledger file that a reload would read holds the
\* complete name of the previously committed stage or of the new stage: it
\* is never empty, and inside a guard call it is the file found at the call
\* or the file naming the target stage.
C8_AtomicLedger ==
    /\ stateFile.exists => stateFile.content # <<>>
    /\ pc \in {"work", "set", "save", "write", "returned"} =>
          stateFile \in {preFile, FileWith(<<target>>)}

\* C9: the value returned by a skipped guard call of a stage equals the
\* artifact returned by the call that executed and committed that stage.
C9_SkipReturnsRecorded ==
    (pc = "skipped" /\ target = recorded.stage) => result = recorded.artifact

\* C10: a purge, with any retain string, leaves content.state unchanged,
\* and a reload after the purge yields the stage that the entity had
\* before the purge (whenever the ledger agreed with it before the purge).
C10_PurgeKeepsProgress ==
    [][op' = "purge" =>
          /\ state' = state
          /\ LoadState(stateFile) = state => LoadState(stateFile') = state]_vars

----------------------------------------------------------------------------
(* Properties of the pipeline run and of the entity's lifecycle *)

\* C11: in a run of create, while the work of a stage of ordinal N+1 (N from
\* image_created on) is being executed, the ledger file names the stage of
\* ordinal N or a later one: the checkpoint of N was committed before.
C11_StageOrdering ==
    (run.pos > 0 /\ pc = "work" /\ Ord(target) >= 2) =>
        /\ stateFile.exists
        /\ LoadState(stateFile) \in StageNames
        /\ Ord(LoadState(stateFile)) >= Ord(target) - 1

\* the files written by the work of stage s are in content.dir, for some
\* value of the argument of the stage function
ArtifactsExist(s) ==
    \E a \in Args(s) : \A i \in 1..NCalls(s) : Produced(s, a, i) \subseteq files

\* C12: whenever content.state has ordinal K, the files written by the work
\* of every stage of the table with an ordinal below K exist in content.dir:
\* no stage is committed while an earlier stage was never executed.
C12_PrefixComplete ==
    state \in StageNames =>
        \A s \in GuardedStages \cap StageNames :
            Ord(s) < Ord(state) => ArtifactsExist(s)

\* C13: in a guard call of a stage that works language by language, the
\* entity's state and the ledger file change only after the work of every
\* language has succeeded; while any language is still to do, and after the
\* work of a language raised, both are what they were before the call, and
\* content.state is never anything but the prior stage or the new one.
C13_AllOrNothing ==
    (InCall /\ target \in LanguageStages /\ workRuns = 1) =>
        /\ state \in {preState, target}
        /\ (state # preState \/ stateFile # preFile) =>
              /\ ~workRaised
              /\ lang = Len(Languages)
              /\ \A i \in 1..Len(Languages) :
                    Produced(target, arg, i) \subseteq files

C13_Witness ==
    /\ pc = "raised"
    /\ workRaised
    /\ target = "speech_created"
    /\ lang = 2
    /\ SpeechMp3("en") \in files
    /\ state = "video_created"
    /\ stateFile = FileWith(<<"video_created">>)

\* C14: every attempt of speech_created that is not skipped starts at the
\* first language and goes through content.languages in order, one call per
\* language, until the last one has succeeded or a call raises; this holds
\* in particular for the attempt that follows a failed one, which calls the
\* synthesis again for the languages that had succeeded.
C14_RetryRedoesAll ==
    [][/\ (pc' = "work" /\ target' = "speech_created" /\ op' # "work") =>
              lang' = 1
       /\ (pc = "work" /\ target = "speech_created" /\ op' = "work") =>
              /\ SpeechMp3(Languages[lang]) \in files'
              /\ IF lang < Len(Languages)
                 THEN pc' = "work" /\ lang' = lang + 1
                 ELSE pc' = "set"]_vars

\* the attempt that follows one that failed on "pt" after "en" succeeded
C14_Witness ==
    /\ pc = "work"
    /\ target = "speech_created"
    /\ op \in {"guard", "create", "next"}
    /\ lang = 1
    /\ SpeechMp3("en") \in files
    /\ SpeechMp3("pt") \notin files
    /\ restarts = 0
    /\ purges = 0

\* C15: when the work of a guard call raises, the exception leaves the
\* guard (no retry: func was invoked once in the call), and a run of create
\* whose guard raised ends with that exception: its next step is the end of
\* the run, no guard of a later stage is entered.
C15_FailFast ==
    /\ []((InCall /\ workRaised) => (pc = "raised" /\ workRuns = 1))
    /\ [][(run.pos > 0 /\ pc = "raised") =>
              (run'.pos = 0 /\ op' \in {"abort", "restart"} /\ works' = works)]_vars
    /\ [](run.end = "error" => (pc = "raised" /\ run.pos = 0))

C15_Witness ==
    /\ op = "abort"
    /\ run.end = "error"
    /\ pc = "raised"
    /\ workRaised
    /\ workRuns = 1
    /\ target = "video_created"

\* C16: a run of create in which no guard raised ends by returning, with
\* content.state = subtitles_added and a returned mapping whose keys are
\* exactly the language codes of content.languages, from a fresh entity as
\* well as from an entity resumed at a committed checkpoint.
C16_RunDelivers ==
    (run.pos = 0 /\ run.end \notin {"none", "running", "error"}) =>
        /\ run.end = "returned"
        /\ state = "subtitles_added"
        /\ {e[1] : e \in result} = LangSet

\* C17 as claimed: after the construction of an entity from an idea dict,
\* content.state is 'initialized', idea.json exists in the new directory, a
\* ledger file naming 'initialized' has been written there, and no external
\* call has been made.
C17_InitPersisted ==
    op = "init" =>
        /\ state = "initialized"
        /\ IdeaJson \in files
        /\ stateFile = FileWith(<<"initialized">>)
        /\ works = 0
        /\ files \subseteq {IdeaJson}

\* C17 as amended: after the construction of an entity from an idea dict,
\* content.state is 'initialized', idea.json exists in the new directory,
\* no ledger file has been written (a load of the directory defaults to
\* 'initialized'), and no external call has been made.
C17_InitNoLedger ==
    op = "init" =>
        /\ state = "initialized"
        /\ IdeaJson \in files
        /\ ~stateFile.exists
        /\ LoadState(stateFile) = "initialized"
        /\ works = 0
        /\ files \subseteq {IdeaJson}

C17_Witness == op = "init" /\ pc = "idle" /\ state = "initialized" /\ IdeaJson \in files

\* C18: the load of a directory that holds idea.json and no ledger file
\* yields content.state = 'initialized'; the load of a directory whose
\* ledger file names a stage yields exactly that stage.
C18_LoadDefault ==
    op = "restart" =>
        /\ ~stateFile.exists => state = "initialized"
        /\ \A s \in StageNames :
              (stateFile.exists /\ stateFile.content = <<s>>) => state = s

\* a load after progress was made and the ledger file was removed
C18_Witness ==
    /\ op = "restart"
    /\ ~stateFile.exists
    /\ IdeaJson \in files
    /\ committed # {}
    /\ state = "initialized"

\* C19: a guard call whose target is no key of the entity's stage table
\* (the speech_created guard on a MusicVideo) raises at the lookup: func is
\* not invoked, and content.state and the ledger file are what they were
\* when the guard was called.
C19_UnknownFailsFast ==
    (InCall /\ target \notin StageNames) =>
        /\ pc = "raised"
        /\ workRuns = 0
        /\ ~workRaised
        /\ state = preState
        /\ stateFile = preFile
        /\ ledgerWrites = 0

C19_Witness ==
    /\ ctype = "music_video"
    /\ op = "guard"
    /\ pc = "raised"
    /\ target = "speech_created"
    /\ state = "video_created"
    /\ stateFile = FileWith(<<"video_created">>)

\* the stage names in the order of ShortVideo.STATES
SixStages == <<"initialized", "image_created", "video_created",
               "speech_created", "video_edited", "subtitles_added">>

----------------------------------------------------------------------------
(* Cancellation, purge, the decorator, the registry and concurrent guards *)

\* C21: when the task of a guard call is cancelled while its work is
\* suspended at an external call, the exception leaves the guard with
\* content.state and the ledger file as they were when the guard was
\* called, and the guard's decision on the entity is then to execute the
\* work of the cancelled stage and to skip every stage up to the prior one.
C21_CancelSafe ==
    op = "cancel" =>
        /\ pc = "raised"
        /\ state = preState
        /\ stateFile = preFile
        /\ ledgerWrites = 0
        /\ GuardOutcome(state, target) = "work"
        /\ \A s \in GuardedStages :
              Ord(s) <= Ord(preState) => GuardOutcome(state, s) = "skipped"

\* a run of create cancelled in the work of video_created
C21_Witness ==
    /\ op = "cancel"
    /\ run.pos = 2
    /\ target = "video_created"
    /\ state = "image_created"
    /\ stateFile = FileWith(<<"image_created">>)

\* the regular files of content.dir, the ledger file included
Listing(fs, ledger) == fs \cup (IF ledger.exists THEN {StateFileName} ELSE {})

C23_SyncSupported ==
    (op = "syncguard" /\ preState \in StageNames /\ Ord(preState) < Ord(target)) =>
        /\ workRuns = 1
        /\ state = target
        /\ stateFile = FileWith(<<target>>)
        /\ result = WorkResult(target, arg)

\* C24: for a ShortVideo and every language L of content.languages, the
\* descriptor of video_edited in the stage table is the file
\* <L>_edited_video.mp4, the file that the work of the video editing
\* returns for L.
C24_EditedDescriptor ==
    ctype = "short_video" =>
        /\ Descriptor("video_edited") = {<<l, EditedVideoMp4(l)>> : l \in LangSet}
        /\ Descriptor("video_edited") = WorkResult("video_edited", "")

\* C25: a mediaAIChemist asked for a content type that is no key of CONTENT
\* raises ValueError('Unsupported content type: <content_type>') and has
\* instantiated no creator; asked for a key of CONTENT it never raises that
\* ValueError, and once constructed it holds the creator of the class
\* registered for the type.
C25_UnsupportedRejected ==
    chemist.status # "none" =>
        /\ chemist.requested \notin {"short_video", "music_video"} =>
              /\ chemist.status = "valueerror"
              /\ chemist.creator = "none"
              /\ chemist.message =
                    <<"Unsupported content type: ", chemist.requested>>
        /\ chemist.requested \in {"short_video", "music_video"} =>
              chemist.status # "valueerror"
        /\ chemist.status = "constructed" =>
              chemist.creator = IF chemist.requested = "short_video"
                                THEN "ShortVideoCreator"
                                ELSE "MusicVideoCreator"

C25_Witness ==
    /\ op = "construct"
    /\ chemist.status = "valueerror"
    /\ chemist.requested = "invalid_content_type"

\* C26: a guard called, for any stage, on an entity whose content.state is
\* subtitles_added is a skip: func is not invoked, content.state stays
\* subtitles_added and the ledger file is not written; and no step other
\* than a reload of the entity takes content.state away from
\* subtitles_added or starts a work once it is there.
C26_TerminalAbsorbing ==
    /\ []((InCall /\ preState = "subtitles_added") =>
              /\ pc = "skipped"
              /\ workRuns = 0
              /\ state = "subtitles_added"
              /\ stateFile = preFile
              /\ ledgerWrites = 0)
    /\ [][(state = "subtitles_added" /\ op' # "restart") =>
              (state' = "subtitles_added" /\ pc' # "work")]_vars

C26_Witness ==
    /\ pc = "skipped"
    /\ preState = "subtitles_added"
    /\ target = "image_created"
    /\ stateFile = FileWith(<<"subtitles_added">>)

\* C27: when two guard calls for different stages run as concurrent tasks
\* on one entity, content.state is never below the stage that a guard has
\* committed and returned, and neither is the stage named by the ledger
\* file below a stage whose name a guard has written to it.
C27_NoRegression ==
    \A i \in TaskIds :
        tasks[i].pc = "returned" =>
            /\ state \in StageNames
            /\ Ord(state) >= Ord(tasks[i].target)
            /\ (tasks[i].wrote /\ LoadState(stateFile) \in StageNames) =>
                  Ord(LoadState(stateFile)) >= Ord(tasks[i].target)

\* C28: content.state is always a key of the entity's stage table: after
\* the construction from an idea, after a load of the directory whatever
\* the ledger file holds, and after every guard call.
C28_StateInTable == state \in StageNames

\* C29: in an attempt of a stage that works language by language, the
\* external calls are made in the order of content.languages (the call for
\* a language is made when the calls for all languages before it have
\* succeeded in this attempt), and once a call has raised, no further
\* external call is made in the attempt: the next external call belongs to
\* a new guard call, which starts at the first language.
C29_FailFastLanguages ==
    [][/\ (op' = "work" /\ target \in LanguageStages) =>
              /\ pc = "work"
              /\ ~workRaised
              /\ \A i \in 1..(lang - 1) : Produced(target, arg, i) \subseteq files
              /\ Produced(target, arg, lang) \subseteq files'
              /\ lang < Len(Languages) => (pc' = "work" /\ lang' = lang + 1)
       /\ (pc = "raised" /\ workRaised) =>
              /\ op' \notin {"work", "raise"}
              /\ files' \subseteq files
              /\ pc' = "work" => (lang' = 1 /\ ~workRaised')]_vars

\* the call for the first language raised: no file of the second language
C29_Witness ==
    /\ pc = "raised"
    /\ workRaised
    /\ target = "speech_created"
    /\ lang = 1
    /\ SpeechMp3("en") \notin files
    /\ SpeechMp3("pt") \notin files


\* every extension the provider has returned so far has a positive duration
AllPositive(s) == \A i \in 1..Len(s) : s[i] > 0

(* C30: add_ai_videos makes one request per iteration of its loop, and only
   while the duration of the original clip plus the extensions obtained so
   far is below target_duration; it makes no request when the original clip
   already reaches the target; the extensions returned before the last one
   never reach the target, so no request is made that was not needed; and
   when every extension returned has a positive duration the loop ends, with
   a total duration of at least target_duration when it returns. *)
C30_MinimalRequests ==
    /\ [][ai'.requests # ai.requests =>
            /\ ai'.requests = ai.requests + 1
            /\ TotalDuration(ai.video, ai.videos_to_add) < ai.target_duration]_vars
    /\ [](ai.video >= ai.target_duration => ai.requests = 0)
    /\ [](Len(ai.videos_to_add) > 0 =>
            TotalDuration(ai.video, SubSeq(ai.videos_to_add, 1,
                                           Len(ai.videos_to_add) - 1))
              < ai.target_duration)
    /\ [](ai.pc = "done" =>
            TotalDuration(ai.video, ai.videos_to_add) >= ai.target_duration)
    /\ [](AllPositive(ai.videos_to_add) /\ ai.video < ai.target_duration =>
            Len(ai.videos_to_add) <= ai.target_duration - ai.video)
    /\ <>(ai.pc \in {"done", "raised"} \/ ~AllPositive(ai.videos_to_add))

\* the loop has returned after two requests that each returned a clip of
\* positive duration
C30_Witness ==
    /\ ai.pc = "done"
    /\ ai.requests = 2
    /\ Len(ai.videos_to_add) = 2
    /\ AllPositive(ai.videos_to_add)

====
